---- MODULE Spec2Model ----
(***************************************************************************)
(* unit3d-terminal-chat (src/chat.py): the ingestion thread                *)
(* (ChatMonitor.monitor_live / process_messages), the curses UI loop       *)
(* (curses_main) and the queue.Queue chat_queue between them.              *)
(*                                                                         *)
(* Text is a sequence of tokens: a token is one character or one BBCode    *)
(* tag ("[b]", "[/b]", ...).  The input buffer is a sequence of key codes. *)
(***************************************************************************)
EXTENDS Integers, Sequences, FiniteSets, TLC

\* ------------------------------------------------------------------ bounds
\* Total number of fragments the probe hands out over one run.
MaxFrags == 3
\* Longest input buffer that is typed.
MaxBuf == 2

\* ------------------------------------------------------------ text helpers
\* Characters str.strip() / get_text(strip=True) remove at both ends.
WsTokens == {" "}
\* Key codes that chr() maps to a whitespace character (str.strip()).
WsCodes == {9, 10, 11, 12, 13, 28, 29, 30, 31, 32, 133, 160}

RECURSIVE LStrip(_, _)
LStrip(s, ws) ==
    IF s = <<>> THEN <<>>
    ELSE IF Head(s) \in ws THEN LStrip(Tail(s), ws) ELSE s

RECURSIVE RStrip(_, _)
RStrip(s, ws) ==
    IF s = <<>> THEN <<>>
    ELSE IF s[Len(s)] \in ws THEN RStrip(SubSeq(s, 1, Len(s) - 1), ws) ELSE s

\* str.strip(): leading and trailing whitespace removed, the inside kept.
Strip(s, ws) == RStrip(LStrip(s, ws), ws)

\* str.upper() on one token (tags are text too: "[i]".upper() is "[I]").
UpperTok(c) ==
    CASE c = "h" -> "H"
      [] c = "i" -> "I"
      [] c = "[b]" -> "[B]"
      [] c = "[/b]" -> "[/B]"
      [] c = "[i]" -> "[I]"
      [] c = "[/i]" -> "[/I]"
      [] c = "[color=r]" -> "[COLOR=R]"
      [] c = "[/color]" -> "[/COLOR]"
      [] OTHER -> c

Upper(s) == [k \in 1..Len(s) |-> UpperTok(s[k])]

\* Index of the first token of s at a position > from that is in toks, 0 if none.
RECURSIVE FindFrom(_, _, _)
FindFrom(s, toks, from) ==
    IF from >= Len(s) THEN 0
    ELSE IF s[from + 1] \in toks THEN from + 1
    ELSE FindFrom(s, toks, from + 1)

\* The replacement each of the three re.sub calls of parse_bbcode makes.
Replacement(mode, inner) ==
    CASE mode = "b" -> Upper(inner)
      [] mode = "i" -> <<"_">> \o inner \o <<"_">>
      [] mode = "color" -> inner

OpenTags(mode) ==
    CASE mode = "b" -> {"[b]"}
      [] mode = "i" -> {"[i]"}
      [] mode = "color" -> {"[color=r]"}

CloseTags(mode) ==
    CASE mode = "b" -> {"[/b]"}
      [] mode = "i" -> {"[/i]"}
      [] mode = "color" -> {"[/color]"}

\* re.sub(r'\[x\](.*?)\[/x\]', repl, text, flags=re.DOTALL): leftmost opening
\* tag, the nearest closing tag after it (non-greedy), then on with the rest.
RECURSIVE ReSub(_, _)
ReSub(text, mode) ==
    LET i == FindFrom(text, OpenTags(mode), 0)
        j == IF i = 0 THEN 0 ELSE FindFrom(text, CloseTags(mode), i)
    IN  IF j = 0 THEN text
        ELSE SubSeq(text, 1, i - 1)
               \o Replacement(mode, SubSeq(text, i + 1, j - 1))
               \o ReSub(SubSeq(text, j + 1, Len(text)), mode)

parse_bbcode(text) == ReSub(ReSub(ReSub(text, "b"), "i"), "color")

\* ---------------------------------------------------------------- fragments
\* One raw HTML fragment (an <li> outerHTML), reduced to what process_messages
\* reads from it.  An element that may be absent is a sequence of zero or one
\* texts.  time is "noelem" (no <time>), "noattr" (<time> without title) or
\* "attr"; raises says that parsing the fragment raises (BeautifulSoup).
Frag(user, time, title, body, raises) ==
    [user |-> user, time |-> time, title |-> title, body |-> body, raises |-> raises]

IsoTitle == <<"2024-01-01", "T", "10:00:00">>
BoldHi == <<"[b]", "h", "i", "[/b]">>

FA == Frag(<< <<"alice">> >>, "attr", IsoTitle, << BoldHi >>, FALSE)
FC == Frag(<< <<"bob">> >>, "attr", IsoTitle, << <<" ", "o", "k", " ">> >>, FALSE)
FEmpty == Frag(<< <<"alice">> >>, "attr", IsoTitle, << <<" ">> >>, FALSE)
FNoBody == Frag(<< <<"alice">> >>, "attr", IsoTitle, <<>>, FALSE)
FBad == Frag(<< <<"alice">> >>, "attr", IsoTitle, << <<"o", "k">> >>, TRUE)

\* The fragments the probe may return.
Fragments == {FA, FC, FEmpty, FNoBody, FBad}

\* More fragments: another author with the text and time of FA, the text FA
\* is normalized to, no <time> element, a <time> without title, and a title
\* that is no ISO time and has blanks around it.
RawTitle == <<" ", "yesterday", " ">>
FB == Frag(<< <<"bob">> >>, "attr", IsoTitle, << BoldHi >>, FALSE)
FHI == Frag(<< <<"alice">> >>, "attr", IsoTitle, << <<"H", "I">> >>, FALSE)
FNoTime == Frag(<< <<"alice">> >>, "noelem", <<>>, << <<"o", "k">> >>, FALSE)
FNoAttr == Frag(<< <<"alice">> >>, "noattr", <<>>, << <<"o", "k">> >>, FALSE)
FRaw == Frag(<< <<"alice">> >>, "attr", RawTitle, << <<"o", "k">> >>, FALSE)

\* The fragments the probe may return in the runs of the monitor thread alone.
WideFragments == Fragments \cup {FB, FHI, FNoTime, FNoAttr, FRaw}

\* Every sequence over S of length at most n.
SeqsUpTo(S, n) == UNION {[1..k -> S] : k \in 0..n}

\* ------------------------------------------------------------- extraction
\* elem.get_text(strip=True) if elem else ""
get_text(elem) == IF elem = <<>> THEN <<>> ELSE Strip(elem[1], WsTokens)

Dates == {"2024-01-01", "2024-01-02"}
Times == {"10:00:00", "10:00:01"}

\* datetime.fromisoformat(timestamp) succeeds
IsIso(ts) ==
    \/ Len(ts) = 1 /\ ts[1] \in Dates
    \/ Len(ts) = 3 /\ ts[1] \in Dates /\ ts[2] = "T" /\ ts[3] \in Times

\* dt.strftime("%H:%M:%S")
Strftime(ts) == IF Len(ts) = 3 THEN <<ts[3]>> ELSE <<"00:00:00">>

\* The title attribute taken as it is, with the blanks around it.
DisplayTimeVerbatim(f) ==
    IF f.time = "attr"
    THEN IF IsIso(f.title) THEN Strftime(f.title) ELSE f.title
    ELSE <<"Unknown time">>

DisplayTime(f) ==
    IF f.time = "attr"
    THEN LET timestamp == Strip(f.title, WsTokens)
         IN  IF IsIso(timestamp) THEN Strftime(timestamp) ELSE timestamp
    ELSE <<"Unknown time">>

Username(f) == get_text(f.user)

Content(f) == get_text(f.body)

\* The check for an empty body left out.
IsEmptyContentNever(content) == FALSE

\* if not content: continue
IsEmptyContent(content) == content = <<>>

\* unique_key = f"{display_time}-{content}"
UniqueKey(display_time, content) == display_time \o <<"-">> \o content

\* The fragments that parse and have a body text: those a record is made from.
Renderable == {f \in Fragments : ~f.raises /\ ~IsEmptyContent(Content(f))}
WideRenderable == {f \in WideFragments : ~f.raises /\ ~IsEmptyContent(Content(f))}

\* A lookup that finds nothing.
IsSeenNever(key, seen) == FALSE

\* if unique_key in self.seen_messages: continue
IsSeen(key, seen) == key \in seen

\* A store that keeps what it has and takes no key.
AddSeenNothing(seen, key) == seen

\* A store that keeps the newest key only.
AddSeenOnly(seen, key) == {key}

\* self.seen_messages.add(unique_key)
AddSeen(seen, key) == seen \cup {key}

\* The tuple process_messages puts on the queue; src is not part of the tuple,
\* it records which delivered fragment the tuple was made from.
ChatRecord(f, src) ==
    [display_time |-> DisplayTime(f), username |-> Username(f),
     content |-> parse_bbcode(Content(f)), src |-> src]

\* A get that returns the newest record.
QueueBack(q) == q[Len(q)]

\* queue.Queue.put / get_nowait: FIFO
QueuePut(q, r) == Append(q, r)
QueueFront(q) == Head(q)
QueueRest(q) == Tail(q)

\* ------------------------------------------------------------------- state
VARIABLES
    main_pc,        \* main thread: "login", "monitor", "key", "drain", "exited"
    mon_pc,         \* monitor thread: "idle", "probe", "process", "put", "sleep",
                    \* "finally", "killed"
    driver,         \* the WebDriver session: "none", "open", "lost", "quit"
    quitCalls,      \* number of driver.quit() calls made
    interrupted,    \* a KeyboardInterrupt was delivered to the main thread
    input_buffer,   \* curses_main's input_buffer, a sequence of key codes
    enterRead,      \* getch() returned Enter/Return in this tick
    sendCalls,      \* number of send_message calls made in this tick
    lastSent,       \* the message argument of this tick's send_message call
    sendFailed,     \* this tick's send_message call caught an exception
    chat_queue,     \* the module-level queue.Queue
    seen_messages,  \* ChatMonitor.seen_messages
    batch,          \* new_msgs_html still to be iterated, with arrival places
    skipped,        \* fragments of the latest batch the for loop never reached
    delivered,      \* number of fragments the probe has handed out
    deliveries,     \* per renderable fragment, how often it was handed out (2: twice or more)
    probes,         \* number of non-empty batches the probe has handed out
    mon_err,        \* what the except clause of process_messages caught last
    put,            \* every record put on chat_queue, in put order
    rendered        \* every record the UI loop rendered, in render order

vars == <<main_pc, mon_pc, driver, quitCalls, interrupted, input_buffer, enterRead,
          sendCalls, lastSent, sendFailed, chat_queue, seen_messages, batch,
          skipped, delivered, deliveries, probes, mon_err, put, rendered>>

uiVars == <<input_buffer, enterRead, sendCalls, lastSent, sendFailed>>
monVars == <<seen_messages, batch, skipped, delivered, deliveries, probes, mon_err, put>>

Init ==
    /\ main_pc = "login"
    /\ mon_pc = "idle"
    /\ driver = "none"
    /\ quitCalls = 0
    /\ interrupted = FALSE
    /\ input_buffer = <<>>
    /\ enterRead = FALSE
    /\ sendCalls = 0
    /\ lastSent = <<>>
    /\ sendFailed = FALSE
    /\ chat_queue = <<>>
    /\ seen_messages = {}
    /\ batch = <<>>
    /\ skipped = <<>>
    /\ delivered = 0
    /\ deliveries = [f \in WideRenderable |-> 0]
    /\ probes = 0
    /\ mon_err = "none"
    /\ put = <<>>
    /\ rendered = <<>>

\* ------------------------------------------------------------ main: startup
\* driver = login_and_get_driver(): either a logged-in driver is returned, or
\* the except clause calls driver.quit() and re-raises; when webdriver.Edge()
\* itself failed there is no driver to quit.  The exception leaves curses_main
\* and main() logs it: the process ends.
\* A failed login after which curses_main goes on.
AfterLoginFailureGoesOn == "monitor"

\* Where the main thread is after login_and_get_driver has raised: the
\* exception leaves curses_main, nothing after line 268 runs.
AfterLoginFailure == "exited"

login_and_get_driver ==
    /\ main_pc = "login"
    /\ \E outcome \in {"ok", "no_driver", "login_failed"} :
         CASE outcome = "ok" ->
                /\ driver' = "open"
                /\ main_pc' = "monitor"
                /\ UNCHANGED quitCalls
           [] outcome = "no_driver" ->
                /\ main_pc' = AfterLoginFailure
                /\ UNCHANGED <<driver, quitCalls>>
           [] outcome = "login_failed" ->
                /\ driver' = "quit"
                /\ quitCalls' = quitCalls + 1
                /\ main_pc' = AfterLoginFailure
    /\ UNCHANGED <<mon_pc, interrupted, chat_queue, rendered>>
    /\ UNCHANGED uiVars
    /\ UNCHANGED monVars

\* monitor = ChatMonitor(driver, chat_queue) runs init_observer (which may
\* raise), then the daemon thread is started and the UI loop entered.
StartMonitor ==
    /\ main_pc = "monitor"
    /\ \E ok \in BOOLEAN :
         IF ok THEN /\ mon_pc' = "probe"
                    /\ main_pc' = "key"
               ELSE /\ main_pc' = "exited"
                    /\ UNCHANGED mon_pc
    /\ UNCHANGED <<driver, quitCalls, interrupted, chat_queue, rendered>>
    /\ UNCHANGED uiVars
    /\ UNCHANGED monVars

\* --------------------------------------------------------- monitor thread
\* The batch visited from its last fragment to its first.
IterOrderReversed(b) == [k \in 1..Len(b) |-> b[Len(b) + 1 - k]]

\* The order in which "for msg_html in new_msgs_html" visits the batch.
IterOrder(b) == b

\* The exception leaves process_messages and ends monitor_live's loop.
AfterExceptionEscapes == "finally"

\* Where the thread goes on after "except Exception" of process_messages has
\* caught and logged: back in monitor_live's loop, to the next call.
AfterException == "probe"

\* The number of k with b[k] = f.
Occurrences(b, f) == Cardinality({k \in 1..Len(b) : b[k] = f})

\* deliveries after batch b was handed out.
Counted(d, b) ==
    [f \in WideRenderable |-> IF d[f] + Occurrences(b, f) >= 2 THEN 2
                         ELSE d[f] + Occurrences(b, f)]

\* The batch with each fragment's arrival place (probe call, index).
Tagged(b, n) == [k \in 1..Len(b) |-> [frag |-> b[k], probe |-> n, idx |-> k]]

\* process_messages up to the start of the for loop: execute_script hands over
\* window.newMessages and empties it, or raises (session lost, or the page was
\* reloaded and the script returned None, which the for loop cannot iterate).
\* On a lost session every call raises; the sleep of monitor_live between two
\* calls is a step of its own there, and part of this step otherwise.
ProbeFrom(U) ==
    /\ mon_pc = "probe"
    /\ \/ /\ mon_err' = "probe"
          /\ mon_pc' = IF driver = "lost" /\ AfterException = "probe"
                       THEN "sleep" ELSE AfterException
          /\ batch' = <<>>
          /\ skipped' = <<>>
          /\ UNCHANGED <<delivered, deliveries, probes>>
       \/ \E b \in SeqsUpTo(U, MaxFrags - delivered) :
            /\ driver = "open"
            /\ mon_err' = "none"
            /\ skipped' = <<>>
            /\ batch' = IterOrder(Tagged(b, probes + 1))
            /\ delivered' = delivered + Len(b)
            /\ deliveries' = Counted(deliveries, b)
            /\ probes' = IF b = <<>> THEN probes ELSE probes + 1
            /\ mon_pc' = IF b = <<>> THEN "probe" ELSE "process"
    /\ UNCHANGED <<main_pc, driver, quitCalls, interrupted, chat_queue,
                   seen_messages, put, rendered>>
    /\ UNCHANGED uiVars

Probe == ProbeFrom(Fragments)
ProbeWide == ProbeFrom(WideFragments)

\* The browser or its window goes away while the thread polls: from now on
\* every execute_script call raises.
SessionLost ==
    /\ driver = "open"
    /\ mon_pc \in {"probe", "process", "put"}
    /\ driver' = "lost"
    /\ UNCHANGED <<main_pc, mon_pc, quitCalls, interrupted, chat_queue, rendered>>
    /\ UNCHANGED uiVars
    /\ UNCHANGED monVars

\* time.sleep(0.05) in monitor_live after a call that failed on a lost
\* session: the loop goes round.
Sleep ==
    /\ mon_pc = "sleep"
    /\ mon_pc' = "probe"
    /\ UNCHANGED <<main_pc, driver, quitCalls, interrupted, chat_queue, rendered>>
    /\ UNCHANGED uiVars
    /\ UNCHANGED monVars

\* One pass of the for loop body up to seen_messages.add for a fragment that
\* is accepted and to its end for any other, and the end of the loop after
\* the last one. An exception leaves the for loop: the except clause is
\* outside it.
ProcessFragment ==
    /\ mon_pc = "process"
    /\ batch # <<>>
    /\ LET e == Head(batch)
           f == e.frag
           content == Content(f)
           key == UniqueKey(DisplayTime(f), content)
       IN  IF f.raises
           THEN /\ mon_err' = "parse"
                /\ batch' = <<>>
                /\ skipped' = [k \in 1..(Len(batch) - 1) |-> batch[k + 1].frag]
                /\ mon_pc' = AfterException
                /\ UNCHANGED <<seen_messages, chat_queue, put>>
           ELSE /\ UNCHANGED <<mon_err, skipped, chat_queue, put>>
                /\ IF IsEmptyContent(content) \/ IsSeen(key, seen_messages)
                   THEN /\ batch' = Tail(batch)
                        /\ mon_pc' = IF Tail(batch) = <<>> THEN "probe" ELSE "process"
                        /\ UNCHANGED seen_messages
                   ELSE /\ seen_messages' = AddSeen(seen_messages, key)
                        /\ mon_pc' = "put"
                        /\ UNCHANGED batch
    /\ UNCHANGED <<main_pc, driver, quitCalls, interrupted, delivered, deliveries,
                   probes, rendered>>
    /\ UNCHANGED uiVars

\* The rest of the pass for an accepted fragment: parse_bbcode and queue.put,
\* and the end of the loop after the last one.
PutRecord ==
    /\ mon_pc = "put"
    /\ LET e == Head(batch)
           rec == ChatRecord(e.frag, e)
       IN  /\ chat_queue' = QueuePut(chat_queue, rec)
           /\ put' = Append(put, rec)
    /\ batch' = Tail(batch)
    /\ mon_pc' = IF Tail(batch) = <<>> THEN "probe" ELSE "process"
    /\ UNCHANGED <<main_pc, driver, quitCalls, interrupted, seen_messages, skipped,
                   delivered, deliveries, probes, mon_err, rendered>>
    /\ UNCHANGED uiVars

\* ---------------------------------------------------------------- UI loop
KEY_ENTER == 343
KEY_BACKSPACE == 263
EnterKeys == {KEY_ENTER, 10, 13}
BackspaceKeys == {KEY_BACKSPACE, 127}
\* What getch() returns in the model: no key, Enter, Backspace, two
\* characters (Tab, which is whitespace, and "a") and a key code above 255
\* (KEY_UP).
Keys == {-1, 10, 13, KEY_ENTER, 127, KEY_BACKSPACE, 9, 97, 259}

\* "if input_buffer:", the strip() left out.
ShouldSubmitUnstripped(buf) == buf # <<>>

\* if input_buffer.strip():
ShouldSubmit(buf) == Strip(buf, WsCodes) # <<>>

\* send_message called with the stripped buffer.
SendArgStripped(buf) == Strip(buf, WsCodes)

\* the message send_message is called with
SendArg(buf) == buf

\* input_buffer = input_buffer[:-1]
DropLast(buf) == IF buf = <<>> THEN <<>> ELSE SubSeq(buf, 1, Len(buf) - 1)

\* An exception of send_message that it does not catch: it leaves curses_main.
AfterSendEscapes(failed) == IF failed THEN "exited" ELSE "drain"

\* Where the UI loop goes on after send_message: its except clause catches
\* and logs, the call returns either way.
AfterSend(failed) == "drain"

\* One tick's keyboard step: getch() and the branch on the key.  send_message
\* catches its own exceptions (failed is its outcome).
KeyStep ==
    /\ main_pc = "key"
    /\ \E ch \in Keys, failed \in BOOLEAN :
         /\ enterRead' = (ch \in EnterKeys)
         /\ IF ch \in EnterKeys /\ ShouldSubmit(input_buffer)
            THEN /\ sendCalls' = sendCalls + 1
                 /\ lastSent' = SendArg(input_buffer)
                 /\ sendFailed' = failed
                 /\ input_buffer' = <<>>
                 /\ main_pc' = AfterSend(failed)
            ELSE /\ failed = FALSE
                 /\ main_pc' = "drain"
                 /\ UNCHANGED <<sendCalls, lastSent, sendFailed>>
                 /\ IF ch = -1 \/ ch \in EnterKeys
                    THEN UNCHANGED input_buffer
                    ELSE IF ch \in BackspaceKeys
                    THEN input_buffer' = DropLast(input_buffer)
                    ELSE IF 0 <= ch /\ ch <= 255
                    THEN /\ Len(input_buffer) < MaxBuf
                         /\ input_buffer' = Append(input_buffer, ch)
                    ELSE UNCHANGED input_buffer
    /\ UNCHANGED <<mon_pc, driver, quitCalls, interrupted, chat_queue, rendered>>
    /\ UNCHANGED monVars

\* A drain loop that stops one record early.
DrainDoneEarly(q) == Len(q) <= 1

\* chat_queue.get_nowait() raises queue.Empty
DrainDone(q) == q = <<>>

\* One pass of the drain loop: get_nowait() returns a record and it is drawn.
DrainGet ==
    /\ main_pc = "drain"
    /\ ~DrainDone(chat_queue)
    /\ rendered' = Append(rendered, QueueFront(chat_queue))
    /\ chat_queue' = QueueRest(chat_queue)
    /\ UNCHANGED <<main_pc, mon_pc, driver, quitCalls, interrupted>>
    /\ UNCHANGED uiVars
    /\ UNCHANGED monVars

\* get_nowait() raises queue.Empty: the drain loop ends, the tick sleeps and
\* the next tick redraws the input window.
DrainEmpty ==
    /\ main_pc = "drain"
    /\ DrainDone(chat_queue)
    /\ main_pc' = "key"
    /\ enterRead' = FALSE
    /\ sendCalls' = 0
    /\ lastSent' = <<>>
    /\ sendFailed' = FALSE
    /\ UNCHANGED <<mon_pc, driver, quitCalls, interrupted, input_buffer,
                   chat_queue, rendered>>
    /\ UNCHANGED monVars

\* Ctrl+C: KeyboardInterrupt is raised in the main thread, leaves curses_main
\* (no clause there catches it) and is logged by main(); the interpreter
\* exits and the daemon monitor thread ends with it, wherever it is.
Interrupt ==
    /\ main_pc # "exited"
    /\ ~interrupted
    /\ interrupted' = TRUE
    /\ main_pc' = "exited"
    /\ mon_pc' = IF mon_pc = "idle" THEN "idle" ELSE "killed"
    /\ UNCHANGED <<driver, quitCalls, chat_queue, rendered>>
    /\ UNCHANGED uiVars
    /\ UNCHANGED monVars

\* --------------------------------------------------------- specifications
MainStep == login_and_get_driver \/ StartMonitor \/ KeyStep \/ DrainGet \/ DrainEmpty
MonitorStep == Probe \/ ProcessFragment \/ PutRecord

Next ==
    \/ login_and_get_driver
    \/ StartMonitor
    \/ KeyStep
    \/ DrainGet
    \/ DrainEmpty
    \/ Probe
    \/ ProcessFragment
    \/ PutRecord
    \/ Interrupt

Spec == Init /\ [][Next]_vars

\* A run that no interrupt ends, in which the main thread keeps running: the
\* UI loop ticks again and again.
LiveNext ==
    \/ login_and_get_driver
    \/ StartMonitor
    \/ KeyStep
    \/ DrainGet
    \/ DrainEmpty
    \/ Probe
    \/ ProcessFragment
    \/ PutRecord

LiveSpec == Init /\ [][LiveNext]_vars /\ WF_vars(MainStep)

\* The runs of the monitor thread with the UI loop left out (it shares only
\* chat_queue with the monitor, and only takes from it), over more fragments.
MonitorNext ==
    \/ login_and_get_driver
    \/ StartMonitor
    \/ ProbeWide
    \/ ProcessFragment
    \/ PutRecord
    \/ SessionLost
    \/ Sleep

MonitorSpec ==
    Init /\ [][MonitorNext]_vars
         /\ WF_vars(ProbeWide \/ ProcessFragment \/ PutRecord \/ Sleep)

\* ------------------------------------------------------------------ claims
\* The dedup key of the record made from fragment f.
Fingerprint(f) == UniqueKey(DisplayTime(f), Content(f))

\* The places in put of the records with the fingerprint of fragment f.
RecordsFor(f) == {k \in 1..Len(put) : Fingerprint(put[k].src.frag) = Fingerprint(f)}

\* A buffer or text that is empty or holds whitespace only.
Blank(s, ws) == \A k \in 1..Len(s) : s[k] \in ws

\* C1: a fragment with a body text that parses and was handed out two or
\* more times has, once the monitor is between two process_messages calls,
\* exactly one record on the Outbound Channel.
C1_ExactlyOneRecord ==
    \A f \in Renderable :
        (deliveries[f] = 2 /\ mon_pc = "probe") => Cardinality(RecordsFor(f)) = 1

\* C2: the records put on the channel are in arrival order: an earlier probe
\* call before a later one, and within one batch in the order of the batch.
C2_Ordering ==
    \A i, j \in 1..Len(put) :
        i < j => \/ put[i].src.probe < put[j].src.probe
                 \/ /\ put[i].src.probe = put[j].src.probe
                    /\ put[i].src.idx < put[j].src.idx

\* Two records of one batch, with a fragment between them that made none.
C2_Witness ==
    /\ Len(put) = 2
    /\ put[1].src.probe = put[2].src.probe
    /\ put[1].src.idx = 1
    /\ put[2].src.idx = 3

\* C3: what the UI loop has rendered is a prefix of what was put on the
\* channel, and the channel holds exactly the rest, in put order.
C3_RenderedIsPrefix ==
    /\ Len(rendered) <= Len(put)
    /\ rendered = SubSeq(put, 1, Len(rendered))
    /\ chat_queue = SubSeq(put, Len(rendered) + 1, Len(put))

\* The UI loop has rendered a record while the monitor is inside a batch and
\* another record waits on the channel.
C3_Witness ==
    /\ Len(rendered) = 1
    /\ Len(chat_queue) = 1
    /\ mon_pc = "process"
    /\ main_pc = "drain"

\* The number of distinct dedup keys, which is the most records that are
\* ever put on the channel.
MostRecords == Cardinality({Fingerprint(f) : f \in Renderable})

\* C4: while the UI loop keeps ticking every record put on the channel is
\* rendered, and a drain ends only on a get that finds the channel empty.
C4_EventualDelivery ==
    /\ \A n \in 1..MostRecords :
         (Len(put) >= n) ~> (Len(rendered) >= n /\ rendered[n] = put[n])
    /\ [][(main_pc = "drain" /\ main_pc' = "key") => chat_queue = <<>>]_vars

\* A drain has ended with everything that was put rendered.
C4_Witness ==
    /\ main_pc = "key"
    /\ Len(put) = 2
    /\ rendered = put
    /\ chat_queue = <<>>

\* C5 as claimed: Enter with a non-blank buffer calls send_message once, with
\* the trimmed buffer, and empties the buffer.
C5_SendsTrimmed ==
    [][(main_pc = "key" /\ enterRead' /\ ~Blank(input_buffer, WsCodes))
         => /\ sendCalls' = sendCalls + 1
            /\ sendCalls' = 1
            /\ lastSent' = Strip(input_buffer, WsCodes)
            /\ input_buffer' = <<>>]_vars

\* C5 as amended: Enter with a non-blank buffer calls send_message once, with
\* the buffer as typed (not trimmed), and empties the buffer.
C5_SendsBufferAsTyped ==
    [][(main_pc = "key" /\ enterRead' /\ ~Blank(input_buffer, WsCodes))
         => /\ sendCalls' = sendCalls + 1
            /\ sendCalls' = 1
            /\ lastSent' = input_buffer
            /\ input_buffer' = <<>>]_vars

\* A message with whitespace at an end was submitted.
C5_Witness ==
    /\ main_pc = "drain"
    /\ enterRead
    /\ sendCalls = 1
    /\ lastSent # Strip(lastSent, WsCodes)
    /\ input_buffer = <<>>

\* C6: Enter with an empty or whitespace-only buffer calls send_message not
\* at all (and leaves the buffer as it is).
C6_NoSendOnBlank ==
    [][(main_pc = "key" /\ enterRead' /\ Blank(input_buffer, WsCodes))
         => /\ sendCalls' = 0
            /\ UNCHANGED <<lastSent, input_buffer>>]_vars

\* Enter was read with a whitespace-only buffer.
C6_Witness ==
    /\ main_pc = "drain"
    /\ enterRead
    /\ sendCalls = 0
    /\ input_buffer # <<>>
    /\ Blank(input_buffer, WsCodes)

\* C7: once the process has exited on an interrupt with the monitor thread
\* running, the browser session has been released exactly once.
C7_ReleasedOnInterrupt ==
    (interrupted /\ main_pc = "exited" /\ mon_pc = "killed")
        => (quitCalls = 1 /\ driver = "quit")

\* C8: an exception in process_messages is caught there: the thread never
\* leaves the polling loop, and after a caught exception it is at the next
\* process_messages call, which it can make.
C8_ExceptionsCaught ==
    /\ mon_pc # "finally"
    /\ (mon_err # "none" /\ mon_pc # "killed") => (mon_pc = "probe" /\ ENABLED Probe)

\* A fragment raised in the middle of a batch and the thread polls on.
C8_Witness ==
    /\ mon_err = "parse"
    /\ mon_pc = "probe"
    /\ Len(put) = 1

\* C9: every fragment with a body text that parses has a record on the
\* channel also when it came after a fragment of its batch that raised.
C9_OnlyBadFragmentSkipped ==
    \A k \in 1..Len(skipped) :
        skipped[k] \in Renderable => RecordsFor(skipped[k]) # {}

\* The body element is absent or its text is blank.
BodyBlank(f) == f.body = <<>> \/ Blank(f.body[1], WsTokens)

\* C10: no record on the channel was made from a fragment without a body
\* element or with a blank body text.
C10_NoRecordForEmptyBody ==
    \A k \in 1..Len(put) : ~BodyBlank(put[k].src.frag)

\* A batch whose first two fragments parsed and made no record: they are
\* fragments without body text.
C10_Witness ==
    /\ mon_pc = "process"
    /\ Len(batch) = 1
    /\ batch[1].idx = 3
    /\ mon_err = "none"
    /\ put = <<>>

\* The display time the claim gives a fragment: the attribute as it is.
ClaimedDisplayTime(f) ==
    IF f.time \in {"noelem", "noattr"} THEN <<"Unknown time">>
    ELSE IF IsIso(f.title) THEN Strftime(f.title) ELSE f.title

\* The display time with the blanks around the attribute removed first.
TrimmedDisplayTime(f) ==
    IF f.time \in {"noelem", "noattr"} THEN <<"Unknown time">>
    ELSE IF IsIso(Strip(f.title, WsTokens)) THEN Strftime(Strip(f.title, WsTokens))
         ELSE Strip(f.title, WsTokens)

\* C12 as claimed: the display time of a record is "Unknown time" without a
\* <time> element or title attribute, HH:MM:SS for an attribute that parses
\* as ISO-8601, and the raw attribute string for one that does not.
C12_DisplayTimeFromRawAttribute ==
    \A k \in 1..Len(put) :
        put[k].display_time = ClaimedDisplayTime(put[k].src.frag)

\* C12 as amended: as claimed, but the attribute is stripped of the
\* whitespace around it before it is parsed, and what is shown for an
\* unparsable attribute is the stripped string.
C12_DisplayTimeFromTrimmedAttribute ==
    \A k \in 1..Len(put) :
        put[k].display_time = TrimmedDisplayTime(put[k].src.frag)

\* Records were put for a fragment without timestamp, for one with an ISO
\* title and for one with an unparsable title with blanks around it.
C12_Witness ==
    /\ Len(put) = 3
    /\ \E i, j, k \in 1..3 :
         /\ put[i].src.frag.time # "attr" /\ put[i].display_time = <<"Unknown time">>
         /\ put[j].src.frag.title = IsoTitle /\ put[j].display_time = <<"10:00:00">>
         /\ put[k].src.frag.title = RawTitle /\ put[k].display_time = <<"yesterday">>

\* C13 as claimed: no two records put on the channel have the same display
\* time and the same (normalized) body.
C13_NoTwoRecordsSameTimeAndBody ==
    \A i, j \in 1..Len(put) :
        i # j => ~(/\ put[i].display_time = put[j].display_time
                   /\ put[i].content = put[j].content)

\* C13 as amended: the key is made from the display time and the body text
\* before normalization, so no two records put on the channel were made from
\* fragments with the same display time and the same trimmed body text.
C13_NoTwoRecordsSameTimeAndRawBody ==
    \A i, j \in 1..Len(put) :
        i # j => ~(/\ put[i].display_time = put[j].display_time
                   /\ Content(put[i].src.frag) = Content(put[j].src.frag))

\* A fragment was handed out twice and made one record, and a fragment with
\* another text that is normalized to the same body made a second one.
C13_Witness ==
    /\ deliveries[FA] = 2
    /\ deliveries[FHI] = 1
    /\ mon_pc = "probe"
    /\ Len(put) = 2
    /\ put[1].content = put[2].content
    /\ put[1].display_time = put[2].display_time

\* C14: no two records put on the channel were made from fragments with the
\* same display time and the same body text and different authors: the one
\* processed second is discarded.
C14_AuthorIgnored ==
    \A i, j \in 1..Len(put) :
        i # j => ~(/\ DisplayTime(put[i].src.frag) = DisplayTime(put[j].src.frag)
                   /\ get_text(put[i].src.frag.body) = get_text(put[j].src.frag.body)
                   /\ put[i].username # put[j].username)

\* Two fragments that differ in the author only were handed out and
\* processed, and one record was put.
C14_Witness ==
    /\ deliveries[FA] = 1
    /\ deliveries[FB] = 1
    /\ delivered = 2
    /\ mon_pc = "probe"
    /\ Len(put) = 1
    /\ put[1].src.frag \in {FA, FB}

\* C15: the key of every record that is on the channel or was rendered is in
\* seen_messages, and seen_messages never loses a key.
C15_RecordBeforePush ==
    /\ [](\A k \in 1..Len(put) :
            UniqueKey(put[k].display_time, Content(put[k].src.frag)) \in seen_messages)
    /\ [](\A k \in 1..Len(chat_queue) :
            UniqueKey(chat_queue[k].display_time, Content(chat_queue[k].src.frag))
                \in seen_messages)
    /\ [][seen_messages \subseteq seen_messages']_vars

\* A key is in the store and its record is not yet on the channel, while an
\* earlier record has been rendered.
C15_Witness ==
    /\ mon_pc = "put"
    /\ Cardinality(seen_messages) = 2
    /\ Len(put) = 1
    /\ rendered = put

\* C17: once the session is lost, so that every later probe call fails, the
\* monitor thread leaves the polling loop and releases the session.
C17_StopsWhenSessionLost ==
    (driver = "lost")
        ~> (mon_pc \notin {"probe", "process", "put", "sleep"} /\ quitCalls = 1)

\* The UI loop's next step is a tick that calls send_message(driver, ...).
SendCall == KeyStep /\ sendCalls' = sendCalls + 1

\* C11: never are a call on the driver by the UI loop (send_message) and a
\* call on the driver by the monitor thread (execute_script) both about to
\* run: the two threads act on nothing but chat_queue at the same time.
C11_OnlyQueueShared == ~(ENABLED SendCall /\ ENABLED Probe)

\* C16: the session is never released more than once, and once the monitor
\* thread is out of its polling loop it has been released exactly once.
C16_ReleasedOnceOnLoopExit ==
    /\ quitCalls <= 1
    /\ mon_pc \in {"finally", "killed"} => quitCalls = 1

\* C18: a tick that reads Enter with a non-blank buffer and whose
\* send_message call fails leaves the buffer empty and goes on to the drain
\* loop, and from there the UI loop comes to its next tick.
C18_FailedSendGoesOn ==
    /\ [][(main_pc = "key" /\ enterRead' /\ ~Blank(input_buffer, WsCodes) /\ sendFailed')
            => (input_buffer' = <<>> /\ main_pc' = "drain" /\ sendCalls' = 1)]_vars
    /\ sendFailed ~> (main_pc = "key" /\ ~sendFailed /\ input_buffer = <<>>)

\* A send_message call has failed and the UI loop is in its drain loop with a
\* record to draw.
C18_Witness ==
    /\ sendFailed
    /\ lastSent # <<>>
    /\ input_buffer = <<>>
    /\ main_pc = "drain"
    /\ chat_queue # <<>>

\* The printable single-byte characters: Latin-1 without the C0 and C1
\* control characters and DEL.
PrintableCodes == (32..126) \cup (160..255)

\* C19: input_buffer holds printable characters only.
C19_BufferPrintable ==
    \A k \in 1..Len(input_buffer) : input_buffer[k] \in PrintableCodes

\* C20: when no session was established, or the main thread has ended
\* without an interrupt (startup has failed), the monitor thread was never
\* started, no probe call and no send_message call was made and nothing was
\* put on the channel.
C20_NothingRunsAfterFailedStartup ==
    (driver \in {"none", "quit"} \/ (main_pc = "exited" /\ ~interrupted))
        => /\ mon_pc = "idle"
           /\ delivered = 0 /\ probes = 0 /\ mon_err = "none"
           /\ sendCalls = 0 /\ lastSent = <<>>
           /\ put = <<>> /\ chat_queue = <<>>

\* The login has failed, the driver was quit and the process has ended.
C20_Witness ==
    /\ driver = "quit"
    /\ quitCalls = 1
    /\ main_pc = "exited"
    /\ ~interrupted

====
